---- MODULE Spec2Model ----
(***************************************************************************)
(* A model of mlflow/exceptions.py (the error-code tables, MlflowException *)
(* and RestException) and of mlflow/data/dataset.py (the Dataset base      *)
(* class).                                                                 *)
(*                                                                         *)
(* Python values are modelled as follows.                                  *)
(*   str            a TLA+ string (TLC evaluates Len, \o and SubSeq on it) *)
(*   Optional[str]  <<>> for None, <<s>> for the string s                  *)
(*   dict           a sequence of <<key, value>> pairs with distinct keys, *)
(*                  in insertion order                                     *)
(*   a call result  [raised |-> "none" or the exception's type, val |-> _] *)
(***************************************************************************)
EXTENDS Integers, Sequences, FiniteSets, Bags, TLC

VARIABLES
    error_code_to_http_status,  \* the module global ERROR_CODE_TO_HTTP_STATUS
    http_status_to_error_code,  \* the module global HTTP_STATUS_TO_ERROR_CODE
    exc,                        \* the exception object built last (cls = "none": none yet)
    call,                       \* the last call: its name and its arguments
    ret,                        \* what the last call returned or raised
    warnings,                   \* what _logger.warning has recorded so far
    chain,                      \* error codes of an exception along reclassifications
    swaps,                      \* transpositions applied to the forward table's entries
    sources,                    \* the DatasetSource objects of the caller, by reference
    datasets,                   \* the Dataset objects built so far, a bag, each with what
                                \* its constructor hashed if it computed the digest
    dsCall,                     \* the last Dataset call: its name and its arguments
    dsRet,                      \* what the last Dataset call returned or raised
    models,                     \* the Model objects the caller built, in order
    files,                      \* the MLmodel file: None or its text
    mCall,                      \* the last Model call: its name and its arguments
    mRet,                       \* what the last Model call returned or raised
    log,                        \* the log call under way: its arguments, its descriptor
                                \* and the place it has reached
    statuses                    \* the status of every logged model, in order

excVars == <<error_code_to_http_status, http_status_to_error_code,
             exc, call, ret, warnings, chain, swaps>>

dsVars == <<sources, datasets, dsCall, dsRet>>

mdVars == <<models, files, mCall, mRet, log, statuses>>

vars == <<excVars, dsVars, mdVars>>

----------------------------------------------------------------------------
(* Bounds of the model *)

\* warnings the logger keeps before the model stops logging calls
MaxWarnings == 1
\* reclassifications (status -> code -> exception) followed in a row
MaxChain == 3
\* adjacent transpositions applied to the entries of the forward table
MaxSwaps == 2
\* Dataset objects alive at a time
MaxDatasets == 2
\* Model objects the caller builds
MaxModels == 2
\* models logged
MaxLogged == 2

----------------------------------------------------------------------------
(* Python str and dict *)

Ch(s, i) == SubSeq(s, i, i)

None == <<>>
Some(s) == <<s>>

DictHas(d, k) == \E i \in 1..Len(d) : d[i][1] = k

DictGet(d, k, default) ==
    IF DictHas(d, k)
    THEN d[CHOOSE i \in 1..Len(d) : d[i][1] = k][2]
    ELSE default

\* d[k] = v: an existing key keeps its place, a new key goes last
DictSet(d, k, v) ==
    IF DictHas(d, k)
    THEN [i \in 1..Len(d) |-> IF d[i][1] = k THEN <<k, v>> ELSE d[i]]
    ELSE Append(d, <<k, v>>)

RECURSIVE DictUpdate(_, _)
DictUpdate(d, other) ==
    IF other = <<>> THEN d
    ELSE DictUpdate(DictSet(d, Head(other)[1], Head(other)[2]), Tail(other))

DictKeys(d) == {d[i][1] : i \in 1..Len(d)}

----------------------------------------------------------------------------
(* json.dumps, json.loads and str() of a dict of strings *)

\* the first place from i on where s holds a character of cs, Len(s) + 1 if none
Find(s, i, cs) ==
    CHOOSE j \in i..(Len(s) + 1) :
        /\ j = Len(s) + 1 \/ Ch(s, j) \in cs
        /\ \A k \in i..(j - 1) : Ch(s, k) \notin cs

\* s with a backslash before each character of cs
RECURSIVE Escape(_, _)
Escape(s, cs) ==
    LET j == Find(s, 1, cs) IN
    IF j > Len(s) THEN s
    ELSE SubSeq(s, 1, j - 1) \o "\\" \o Ch(s, j) \o Escape(SubSeq(s, j + 1, Len(s)), cs)

JsonEscape(s) == Escape(s, {"\"", "\\"})

JsonString(s) == "\"" \o JsonEscape(s) \o "\""

RECURSIVE JsonItems(_)
JsonItems(d) ==
    IF d = <<>> THEN ""
    ELSE JsonString(Head(d)[1]) \o ": " \o JsonString(Head(d)[2])
         \o (IF Len(d) > 1 THEN ", " ELSE "") \o JsonItems(Tail(d))

\* json.dumps(d) with the default separators
JsonDumps(d) == "{" \o JsonItems(d) \o "}"

\* the first place from i on that holds no space
SkipSpaces(t, i) ==
    CHOOSE j \in i..(Len(t) + 1) :
        /\ j = Len(t) + 1 \/ Ch(t, j) # " "
        /\ \A k \in i..(j - 1) : Ch(t, k) = " "

\* the string whose opening quote is at i - 1: its text and the place after it
RECURSIVE ScanString(_, _, _)
ScanString(t, i, acc) ==
    LET j == Find(t, i, {"\"", "\\"})
        text == acc \o SubSeq(t, i, j - 1)
    IN  IF j > Len(t) THEN [ok |-> FALSE, val |-> text, next |-> j]
        ELSE IF Ch(t, j) = "\"" THEN [ok |-> TRUE, val |-> text, next |-> j + 1]
        ELSE IF j + 1 <= Len(t) /\ Ch(t, j + 1) \in {"\"", "\\", "/"}
             THEN ScanString(t, j + 2, text \o Ch(t, j + 1))
        ELSE [ok |-> FALSE, val |-> text, next |-> j]

ParseString(t, i) ==
    IF i <= Len(t) /\ Ch(t, i) = "\""
    THEN ScanString(t, i + 1, "")
    ELSE [ok |-> FALSE, val |-> "", next |-> i]

\* the members of an object from place i on, added to acc (a repeated key: the last wins)
RECURSIVE ParseMembers(_, _, _)
ParseMembers(t, i, acc) ==
    LET k  == ParseString(t, SkipSpaces(t, i))
        c  == SkipSpaces(t, k.next)
        v  == ParseString(t, SkipSpaces(t, c + 1))
        e  == SkipSpaces(t, v.next)
        d  == DictSet(acc, k.val, v.val)
    IN  IF ~k.ok \/ c > Len(t) \/ Ch(t, c) # ":" THEN [ok |-> FALSE, val |-> acc]
        ELSE IF ~v.ok \/ e > Len(t) THEN [ok |-> FALSE, val |-> acc]
        ELSE IF Ch(t, e) = "," THEN ParseMembers(t, e + 1, d)
        ELSE IF Ch(t, e) = "}" /\ SkipSpaces(t, e + 1) > Len(t)
             THEN [ok |-> TRUE, val |-> d]
        ELSE [ok |-> FALSE, val |-> acc]

\* json.loads(t) of an object of strings; ok = FALSE stands for JSONDecodeError
JsonLoads(t) ==
    LET i == SkipSpaces(t, 1)
        j == SkipSpaces(t, i + 1)
    IN  IF i > Len(t) \/ Ch(t, i) # "{" THEN [ok |-> FALSE, val |-> <<>>]
        ELSE IF j <= Len(t) /\ Ch(t, j) = "}" /\ SkipSpaces(t, j + 1) > Len(t)
             THEN [ok |-> TRUE, val |-> <<>>]
        ELSE ParseMembers(t, j, <<>>)

Contains(s, c) == \E i \in 1..Len(s) : Ch(s, i) = c

ReprEscape(s, q) == Escape(s, {q, "\\"})

\* repr() of a str: single quotes, unless it holds a single quote and no double quote
ReprStr(s) ==
    LET q == IF Contains(s, "'") /\ ~Contains(s, "\"") THEN "\"" ELSE "'"
    IN  q \o ReprEscape(s, q) \o q

RECURSIVE ReprItems(_)
ReprItems(d) ==
    IF d = <<>> THEN ""
    ELSE ReprStr(Head(d)[1]) \o ": " \o ReprStr(Head(d)[2])
         \o (IF Len(d) > 1 THEN ", " ELSE "") \o ReprItems(Tail(d))

\* str(d) of a dict of strings
StrDict(d) == "{" \o ReprItems(d) \o "}"

----------------------------------------------------------------------------
(* mlflow.protos.databricks_pb2: the ErrorCode enumeration.  The generated  *)
(* module is not among the sources; names and numbers are those of the      *)
(* protocol definition.  IO_ERROR and MALFORMED_REQUEST are members that    *)
(* exceptions.py does not import.                                           *)

INTERNAL_ERROR == 1
TEMPORARILY_UNAVAILABLE == 2
IO_ERROR == 3
BAD_REQUEST == 4
DEADLINE_EXCEEDED == 7
CANCELLED == 8
RESOURCE_EXHAUSTED == 9
ABORTED == 10
NOT_FOUND == 11
ALREADY_EXISTS == 12
UNAUTHENTICATED == 13
INVALID_PARAMETER_VALUE == 1000
ENDPOINT_NOT_FOUND == 1001
MALFORMED_REQUEST == 1002
INVALID_STATE == 1003
PERMISSION_DENIED == 1004
CUSTOMER_UNAUTHORIZED == 1006
REQUEST_LIMIT_EXCEEDED == 1007
RESOURCE_CONFLICT == 1008
NOT_IMPLEMENTED == 1010
DATA_LOSS == 1011
RESOURCE_ALREADY_EXISTS == 3001
RESOURCE_DOES_NOT_EXIST == 3002

\* the enum descriptor: <<name, number>> per member
ErrorCode ==
    << <<"INTERNAL_ERROR", INTERNAL_ERROR>>,
       <<"TEMPORARILY_UNAVAILABLE", TEMPORARILY_UNAVAILABLE>>,
       <<"IO_ERROR", IO_ERROR>>,
       <<"BAD_REQUEST", BAD_REQUEST>>,
       <<"DEADLINE_EXCEEDED", DEADLINE_EXCEEDED>>,
       <<"CANCELLED", CANCELLED>>,
       <<"RESOURCE_EXHAUSTED", RESOURCE_EXHAUSTED>>,
       <<"ABORTED", ABORTED>>,
       <<"NOT_FOUND", NOT_FOUND>>,
       <<"ALREADY_EXISTS", ALREADY_EXISTS>>,
       <<"UNAUTHENTICATED", UNAUTHENTICATED>>,
       <<"INVALID_PARAMETER_VALUE", INVALID_PARAMETER_VALUE>>,
       <<"ENDPOINT_NOT_FOUND", ENDPOINT_NOT_FOUND>>,
       <<"MALFORMED_REQUEST", MALFORMED_REQUEST>>,
       <<"INVALID_STATE", INVALID_STATE>>,
       <<"PERMISSION_DENIED", PERMISSION_DENIED>>,
       <<"CUSTOMER_UNAUTHORIZED", CUSTOMER_UNAUTHORIZED>>,
       <<"REQUEST_LIMIT_EXCEEDED", REQUEST_LIMIT_EXCEEDED>>,
       <<"RESOURCE_CONFLICT", RESOURCE_CONFLICT>>,
       <<"NOT_IMPLEMENTED", NOT_IMPLEMENTED>>,
       <<"DATA_LOSS", DATA_LOSS>>,
       <<"RESOURCE_ALREADY_EXISTS", RESOURCE_ALREADY_EXISTS>>,
       <<"RESOURCE_DOES_NOT_EXIST", RESOURCE_DOES_NOT_EXIST>> >>

EnumNames == {ErrorCode[i][1] : i \in 1..Len(ErrorCode)}
EnumNumbers == {ErrorCode[i][2] : i \in 1..Len(ErrorCode)}

(* An argument of any Python type: t is the type, n the value of an int,    *)
(* s the text of a str or of an exception.                                 *)
PyInt(n) == [t |-> "int", n |-> n, s |-> ""]
PyStr(s) == [t |-> "str", n |-> 0, s |-> s]
PyNone == [t |-> "NoneType", n |-> 0, s |-> ""]
PyException(s) == [t |-> "Exception", n |-> 0, s |-> s]

\* str(x)
Str(x) == IF x.t = "NoneType" THEN "None" ELSE x.s

\* ErrorCode.Name(number): ValueError for an int that is no member's number,
\* TypeError for a value that is not an int
ErrorCode_Name(number) ==
    IF number.t # "int" THEN [raised |-> "TypeError", val |-> ""]
    ELSE IF number.n \notin EnumNumbers THEN [raised |-> "ValueError", val |-> ""]
    ELSE [raised |-> "none",
          val |-> ErrorCode[CHOOSE i \in 1..Len(ErrorCode) : ErrorCode[i][2] = number.n][1]]

\* ErrorCode.Value(name): ValueError for anything that is no member's name
ErrorCode_Value(name) ==
    IF name.t # "str" \/ name.s \notin EnumNames THEN [raised |-> "ValueError", val |-> 0]
    ELSE [raised |-> "none",
          val |-> ErrorCode[CHOOSE i \in 1..Len(ErrorCode) : ErrorCode[i][1] = name.s][2]]

\* the name of a member given by its constant, as in ErrorCode.Name(INTERNAL_ERROR)
NameOf(number) == ErrorCode_Name(PyInt(number)).val

----------------------------------------------------------------------------
(* exceptions.py: the tables *)

ERROR_CODE_TO_HTTP_STATUS ==
    << <<NameOf(INTERNAL_ERROR), 500>>,
       <<NameOf(INVALID_STATE), 500>>,
       <<NameOf(DATA_LOSS), 500>>,
       <<NameOf(NOT_IMPLEMENTED), 501>>,
       <<NameOf(TEMPORARILY_UNAVAILABLE), 503>>,
       <<NameOf(DEADLINE_EXCEEDED), 504>>,
       <<NameOf(REQUEST_LIMIT_EXCEEDED), 429>>,
       <<NameOf(CANCELLED), 499>>,
       <<NameOf(RESOURCE_EXHAUSTED), 429>>,
       <<NameOf(ABORTED), 409>>,
       <<NameOf(RESOURCE_CONFLICT), 409>>,
       <<NameOf(ALREADY_EXISTS), 409>>,
       <<NameOf(NOT_FOUND), 404>>,
       <<NameOf(ENDPOINT_NOT_FOUND), 404>>,
       <<NameOf(RESOURCE_DOES_NOT_EXIST), 404>>,
       <<NameOf(PERMISSION_DENIED), 403>>,
       <<NameOf(CUSTOMER_UNAUTHORIZED), 401>>,
       <<NameOf(UNAUTHENTICATED), 401>>,
       <<NameOf(BAD_REQUEST), 400>>,
       <<NameOf(RESOURCE_ALREADY_EXISTS), 400>>,
       <<NameOf(INVALID_PARAMETER_VALUE), 400>> >>

\* {v: k for k, v in forward.items()}: a later entry of a status replaces an earlier one
RECURSIVE InvertItems(_, _)
InvertItems(forward, acc) ==
    IF forward = <<>> THEN acc
    ELSE InvertItems(Tail(forward), DictSet(acc, Head(forward)[2], Head(forward)[1]))

\* variants of PinCanonical: one of the assignments left out, or 404 given to NOT_FOUND
PinCanonical_Without404(reverse) ==
    DictSet(DictSet(reverse, 400, NameOf(BAD_REQUEST)), 500, NameOf(INTERNAL_ERROR))

PinCanonical_Without400(reverse) ==
    DictSet(DictSet(reverse, 404, NameOf(ENDPOINT_NOT_FOUND)), 500, NameOf(INTERNAL_ERROR))

PinCanonical_404AsNotFound(reverse) ==
    DictSet(DictSet(DictSet(reverse,
        400, NameOf(BAD_REQUEST)),
        404, NameOf(NOT_FOUND)),
        500, NameOf(INTERNAL_ERROR))

\* the three assignments that follow the comprehension
PinCanonical(reverse) ==
    DictSet(DictSet(DictSet(reverse,
        400, NameOf(BAD_REQUEST)),
        404, NameOf(ENDPOINT_NOT_FOUND)),
        500, NameOf(INTERNAL_ERROR))

\* HTTP_STATUS_TO_ERROR_CODE as the module builds it from a forward table
BuildHttpStatusToErrorCode(forward) == PinCanonical(InvertItems(forward, <<>>))

HTTP_STATUS_TO_ERROR_CODE == BuildHttpStatusToErrorCode(ERROR_CODE_TO_HTTP_STATUS)

\* get_error_code(http_status): the number of the canonical member
get_error_code(reverse, http_status) ==
    ErrorCode_Value(PyStr(DictGet(reverse, http_status, NameOf(INTERNAL_ERROR))))

----------------------------------------------------------------------------
(* exceptions.py: MlflowException and RestException *)

NoException ==
    [cls |-> "none", error_code |-> "", message |-> "", json_kwargs |-> <<>>, json |-> None]

\* variant of InitCatches: "except ValueError" alone
InitCatches_ValueErrorOnly == {"ValueError"}

\* the exception types of "except (ValueError, TypeError)" in MlflowException.__init__
InitCatches == {"ValueError", "TypeError"}

\* MlflowException.__init__(self, message, error_code, **kwargs): the object,
\* or the exception the constructor lets through
MlflowException_init(cls, message, error_code, kwargs) ==
    LET named == ErrorCode_Name(error_code) IN
    IF named.raised # "none" /\ named.raised \notin InitCatches
    THEN [raised |-> named.raised, obj |-> NoException]
    ELSE [raised |-> "none",
          obj |-> [cls |-> cls,
                   error_code |-> IF named.raised \in InitCatches
                                  THEN NameOf(INTERNAL_ERROR)
                                  ELSE named.val,
                   message |-> Str(message),
                   json_kwargs |-> kwargs,
                   json |-> None]]

\* variant of serialize_as_json: the reserved keys are written after the extra ones
serialize_as_json_ReservedLast(self) ==
    JsonDumps(DictUpdate(self.json_kwargs,
                         << <<"error_code", self.error_code>>, <<"message", self.message>> >>))

\* MlflowException.serialize_as_json(self)
serialize_as_json(self) ==
    JsonDumps(DictUpdate(<< <<"error_code", self.error_code>>, <<"message", self.message>> >>,
                         self.json_kwargs))

\* variant of get_http_status_code: the default of the lookup is 400
get_http_status_code_Default400(forward, self) == DictGet(forward, self.error_code, 400)

\* MlflowException.get_http_status_code(self)
get_http_status_code(forward, self) == DictGet(forward, self.error_code, 500)

UnrecognizedWarning(error_code) ==
    "Received error code not recognized by MLflow: " \o error_code
    \o ", this may indicate your request hits error outside the MLflow server, "
    \o "e.g., proxy server, IP blocker or so."

\* variant of RestMessage: a response without a message gives an empty text
RestMessage_NoFallback(json) ==
    DictGet(json, "error_code", NameOf(INTERNAL_ERROR)) \o ": " \o DictGet(json, "message", "")

\* the message RestException.__init__ formats from the response
RestMessage(json) ==
    LET error_code == DictGet(json, "error_code", NameOf(INTERNAL_ERROR)) IN
    error_code \o ": "
    \o (IF DictHas(json, "message")
        THEN DictGet(json, "message", "")
        ELSE "Response: " \o StrDict(json))

\* variant of RestCatches: the try statement catches nothing
RestCatches_Nothing == {}

\* the exception types of "except ValueError" in RestException.__init__
RestCatches == {"ValueError"}

\* RestException.__init__(self, json): the object or the exception let through,
\* and the warnings logged
RestException_init(json) ==
    LET error_code == DictGet(json, "error_code", NameOf(INTERNAL_ERROR))
        message == RestMessage(json)
        value == ErrorCode_Value(PyStr(error_code))
        tried == IF value.raised # "none"
                 THEN [raised |-> value.raised, obj |-> NoException]
                 ELSE MlflowException_init("RestException", PyStr(message),
                                           PyInt(value.val), <<>>)
        handled == MlflowException_init("RestException", PyStr(message),
                                        PyInt(INTERNAL_ERROR), <<>>)
        logged == IF tried.raised \in RestCatches
                  THEN <<UnrecognizedWarning(error_code)>>
                  ELSE <<>>
        built == IF tried.raised \in RestCatches THEN handled ELSE tried
    IN  [raised |-> built.raised,
         obj |-> IF built.raised = "none"
                 THEN [built.obj EXCEPT !.json = Some(json)]
                 ELSE NoException,
         logged |-> logged]

----------------------------------------------------------------------------
(* Inputs of the exception operations *)

Messages == {PyStr("bad input"), PyException("boom")}

\* members, numbers that are no member's, and values of the wrong type
ErrorCodeArgs ==
    {PyInt(n) : n \in EnumNumbers} \cup {PyInt(0), PyInt(9999), PyStr("NOT_FOUND"), PyNone}

Kwargs ==
    { <<>>,
      << <<"run_id", "r1">> >>,
      << <<"message", "overridden">>, <<"error_code", "CUSTOM">>, <<"hint", "say \"hi\"">> >> }

\* the subclasses that add nothing to MlflowException
Classes == {"ExecutionException", "MissingConfigException", "InvalidUrlException"}

ResponseCodes ==
    {None} \cup {Some(c) : c \in {"RESOURCE_DOES_NOT_EXIST", "BAD_REQUEST", "IO_ERROR",
                                  "PROXY_BLOCKED", "403"}}

ResponseMessages == {None, Some("no such run")}

Response(c, m) ==
    (IF c = None THEN <<>> ELSE << <<"error_code", c[1]>> >>)
    \o (IF m = None THEN <<>> ELSE << <<"message", m[1]>> >>)

Responses == {Response(c, m) : c \in ResponseCodes, m \in ResponseMessages}

HttpStatuses ==
    {ERROR_CODE_TO_HTTP_STATUS[i][2] : i \in 1..Len(ERROR_CODE_TO_HTTP_STATUS)}
    \cup {200, 418, 502}

----------------------------------------------------------------------------
(* The exception operations as actions *)

NoCall ==
    [op |-> "none", cls |-> "", message |-> PyNone, error_code |-> PyNone,
     kwargs |-> <<>>, json |-> <<>>, http_status |-> 0]

\* raised: the exception the call let through; s, n: the str or int returned;
\* logged: how many warnings the call logged
NoReturn == [raised |-> "none", s |-> "", n |-> 0, logged |-> 0]

InitExceptions ==
    /\ error_code_to_http_status = ERROR_CODE_TO_HTTP_STATUS
    /\ http_status_to_error_code = HTTP_STATUS_TO_ERROR_CODE
    /\ exc = NoException
    /\ call = NoCall
    /\ ret = NoReturn
    /\ warnings = <<>>
    /\ chain = <<>>
    /\ swaps = 0

\* a constructor call ends: the object is the one built unless the call raised
Constructed(built, made) ==
    /\ exc' = IF built.raised = "none" THEN built.obj ELSE exc
    /\ chain' = IF built.raised = "none" THEN <<built.obj.error_code>> ELSE chain
    /\ call' = made
    /\ UNCHANGED <<error_code_to_http_status, http_status_to_error_code, swaps, dsVars, mdVars>>

\* cls(message, error_code=error_code, **kwargs) for MlflowException and the
\* subclasses that inherit its constructor
NewMlflowException(cls, message, error_code, kwargs) ==
    \E built \in {MlflowException_init(cls, message, error_code, kwargs)} :
    /\ Constructed(built, [NoCall EXCEPT !.op = "MlflowException", !.cls = cls,
                                         !.message = message, !.error_code = error_code,
                                         !.kwargs = kwargs])
    /\ ret' = [NoReturn EXCEPT !.raised = built.raised]
    /\ UNCHANGED warnings

\* cls(message, **kwargs): error_code takes its default, INTERNAL_ERROR
NewMlflowExceptionDefault(cls, message, kwargs) ==
    \E built \in {MlflowException_init(cls, message, PyInt(INTERNAL_ERROR), kwargs)} :
    /\ Constructed(built, [NoCall EXCEPT !.op = "MlflowException()", !.cls = cls,
                                         !.message = message, !.kwargs = kwargs])
    /\ ret' = [NoReturn EXCEPT !.raised = built.raised]
    /\ UNCHANGED warnings

\* MlflowException.invalid_parameter_value(message, **kwargs)
invalid_parameter_value(message, kwargs) ==
    \E built \in {MlflowException_init("MlflowException", message,
                                      PyInt(INVALID_PARAMETER_VALUE), kwargs)} :
    /\ Constructed(built, [NoCall EXCEPT !.op = "invalid_parameter_value",
                                         !.cls = "MlflowException",
                                         !.message = message, !.kwargs = kwargs])
    /\ ret' = [NoReturn EXCEPT !.raised = built.raised]
    /\ UNCHANGED warnings

_UnsupportedMultipartUploadException_MESSAGE ==
    "Multipart upload is not supported for the current artifact repository"

\* _UnsupportedMultipartUploadException()
NewUnsupportedMultipartUpload ==
    \E built \in {MlflowException_init("_UnsupportedMultipartUploadException",
                        PyStr(_UnsupportedMultipartUploadException_MESSAGE),
                        PyInt(NOT_IMPLEMENTED), <<>>)} :
    /\ Constructed(built, [NoCall EXCEPT !.op = "_UnsupportedMultipartUploadException"])
    /\ ret' = [NoReturn EXCEPT !.raised = built.raised]
    /\ UNCHANGED warnings

\* RestException(json)
NewRestException(json) ==
    \E built \in {RestException_init(json)} :
    /\ Len(warnings) + Len(built.logged) <= MaxWarnings
    /\ Constructed(built, [NoCall EXCEPT !.op = "RestException", !.json = json])
    /\ warnings' = warnings \o built.logged
    /\ ret' = [NoReturn EXCEPT !.raised = built.raised, !.logged = Len(built.logged)]

\* exc.serialize_as_json()
SerializeAsJson ==
    /\ exc.cls # "none"
    /\ call' = [NoCall EXCEPT !.op = "serialize_as_json"]
    /\ ret' = [NoReturn EXCEPT !.s = serialize_as_json(exc)]
    /\ UNCHANGED <<error_code_to_http_status, http_status_to_error_code, exc, warnings, chain, swaps, dsVars, mdVars>>

\* exc.get_http_status_code()
GetHttpStatusCode ==
    /\ exc.cls # "none"
    /\ call' = [NoCall EXCEPT !.op = "get_http_status_code"]
    /\ ret' = [NoReturn EXCEPT !.n = get_http_status_code(error_code_to_http_status, exc)]
    /\ UNCHANGED <<error_code_to_http_status, http_status_to_error_code, exc, warnings, chain, swaps, dsVars, mdVars>>

\* get_error_code(http_status)
GetErrorCode(http_status) ==
    LET r == get_error_code(http_status_to_error_code, http_status) IN
    /\ call' = [NoCall EXCEPT !.op = "get_error_code", !.http_status = http_status]
    /\ ret' = [NoReturn EXCEPT !.raised = r.raised, !.n = r.val]
    /\ UNCHANGED <<error_code_to_http_status, http_status_to_error_code, exc, warnings, chain, swaps, dsVars, mdVars>>

\* The exception is turned into its HTTP status and the status back into an
\* exception: MlflowException(exc.message, get_error_code(exc.get_http_status_code()))
Reclassify ==
    LET status == get_http_status_code(error_code_to_http_status, exc)
        code == get_error_code(http_status_to_error_code, status)
        built == MlflowException_init("MlflowException", PyStr(exc.message),
                                      PyInt(code.val), exc.json_kwargs)
    IN  /\ exc.cls # "none"
        /\ Len(chain) < MaxChain
        /\ code.raised = "none"
        /\ built.raised = "none"
        /\ exc' = built.obj
        /\ call' = [NoCall EXCEPT !.op = "reclassify", !.http_status = status]
        /\ ret' = NoReturn
        /\ chain' = Append(chain, exc'.error_code)
        /\ UNCHANGED <<error_code_to_http_status, http_status_to_error_code, warnings, swaps, dsVars, mdVars>>

Next ==
    \/ \E m \in Messages, c \in ErrorCodeArgs, k \in Kwargs :
           NewMlflowException("MlflowException", m, c, k)
    \/ \E cls \in Classes, m \in Messages, k \in Kwargs :
           NewMlflowExceptionDefault(cls, m, k)
    \/ \E m \in Messages, k \in Kwargs : invalid_parameter_value(m, k)
    \/ NewUnsupportedMultipartUpload
    \/ \E json \in Responses : NewRestException(json)
    \/ SerializeAsJson
    \/ GetHttpStatusCode
    \/ Reclassify

----------------------------------------------------------------------------
(* The tables under a reordering of the forward table's entries.  The       *)
(* module builds HTTP_STATUS_TO_ERROR_CODE from the entries in the order    *)
(* they are written; ReorderEntries exchanges two neighbouring entries of   *)
(* the literal and builds the reverse table again, as importing the edited  *)
(* module does.  No entry's status changes.                                 *)

SwapEntries(forward, i) ==
    [j \in 1..Len(forward) |->
        IF j = i THEN forward[i + 1] ELSE IF j = i + 1 THEN forward[i] ELSE forward[j]]

ReorderEntries(i) ==
    /\ swaps < MaxSwaps
    /\ swaps' = swaps + 1
    /\ error_code_to_http_status' = SwapEntries(error_code_to_http_status, i)
    /\ http_status_to_error_code' = BuildHttpStatusToErrorCode(error_code_to_http_status')
    /\ call' = [NoCall EXCEPT !.op = "reorder"]
    /\ ret' = NoReturn
    /\ UNCHANGED <<exc, warnings, chain, dsVars, mdVars>>

NextTable ==
    \/ \E i \in 1..(Len(ERROR_CODE_TO_HTTP_STATUS) - 1) : ReorderEntries(i)
    \/ \E s \in HttpStatuses : GetErrorCode(s)

----------------------------------------------------------------------------
(* hashlib.md5(text).hexdigest().  MD5 itself is not computed: Md5Hexdigest  *)
(* is a fixed function of the text that yields 32 hexadecimal digits, eight *)
(* 16-bit words each mixed from every character and its place.              *)

HexDigits == "0123456789abcdef"

\* the printable ASCII characters, from code 32 on; a tab holds the place of
\* the grave accent, which a string here cannot contain
Alphabet ==
    " !\"#$%&'()*+,-./0123456789:;<=>?@ABCDEFGHIJKLMNOPQRSTUVWXYZ[\\]^_\tabcdefghijklmnopqrstuvwxyz{|}~"

\* the characters with their codes, as a set of pairs
Codes == {<<Ch(Alphabet, i), 31 + i>> : i \in 1..Len(Alphabet)}

\* text.encode("utf-8"): the code of a character
Ord(c) == (CHOOSE p \in Codes : p[1] = c)[2]

Hex4(n) ==
    Ch(HexDigits, ((n \div 4096) % 16) + 1) \o Ch(HexDigits, ((n \div 256) % 16) + 1)
    \o Ch(HexDigits, ((n \div 16) % 16) + 1) \o Ch(HexDigits, (n % 16) + 1)

RECURSIVE MixRange(_, _, _, _)
MixRange(text, lo, hi, w) ==
    IF lo > hi THEN 0
    ELSE IF lo = hi
         THEN (Ord(Ch(text, lo)) * (((lo * lo * (2 * w + 1) + 7 * lo + w) % 251) + 1)) % 65521
    ELSE LET mid == (lo + hi) \div 2
         IN  (MixRange(text, lo, mid, w) + MixRange(text, mid + 1, hi, w)) % 65521

Md5Word(text, w) == (MixRange(text, 1, Len(text), w) + 131 * w * Len(text)) % 65536

Md5Compute(text) ==
    Hex4(Md5Word(text, 1)) \o Hex4(Md5Word(text, 2)) \o Hex4(Md5Word(text, 3))
    \o Hex4(Md5Word(text, 4)) \o Hex4(Md5Word(text, 5)) \o Hex4(Md5Word(text, 6))
    \o Hex4(Md5Word(text, 7)) \o Hex4(Md5Word(text, 8))

----------------------------------------------------------------------------
(* mlflow.data.dataset_source: DatasetSource.  The class is abstract and is *)
(* not among the sources; a source object is what its two methods return:   *)
(* its source type and the JSON text of its configuration.                  *)

\* source._get_source_type()
get_source_type(source) == source.source_type

\* source.to_json()
source_to_json(source) == source.json

\* the JSON texts a source of the caller has: its location, before and after
\* the caller changes it
SourceJsons == {"{\"uri\": \"s3://b/train\"}", "{\"uri\": \"s3://b/test\"}"}

\* the texts the datasets of the model hash, with their hashes, computed once
Md5Known ==
    {<<text, Md5Compute(text)>> :
        text \in {JsonDumps(<< <<"name", n>>, <<"source", j>>, <<"source_type", "s3">> >>) :
                  n \in {"dataset", "iris"}, j \in SourceJsons}}

----------------------------------------------------------------------------
(* dataset.py: Dataset.  self._source is a reference to the caller's object *)
(* (0 for None); heap maps the references to the objects.                   *)

NoDataset == [cls |-> "none", _name |-> None, _source |-> 0, _digest |-> ""]

\* variant of name: no placeholder, the attribute as it is
name_NoPlaceholder(self) == IF self._name # None THEN self._name[1] ELSE "None"

\* Dataset.name
name(self) == IF self._name # None THEN self._name[1] ELSE "dataset"

\* Dataset.digest
digest(self) == self._digest

\* Dataset.source
source(self) == self._source

\* json.dumps(config) in _compute_digest
DigestConfig(heap, self) ==
    JsonDumps(<< <<"name", name(self)>>,
                 <<"source", source_to_json(heap[source(self)])>>,
                 <<"source_type", get_source_type(heap[source(self)])>> >>)

\* hashlib.md5(text.encode("utf-8")).hexdigest(), looked up when it is known
Md5Hexdigest(text) ==
    IF \E p \in Md5Known : p[1] = text
    THEN (CHOOSE p \in Md5Known : p[1] = text)[2]
    ELSE Md5Compute(text)

\* variant of _compute_digest: the configuration holds self._name, not self.name
_compute_digest_RawName(heap, self) ==
    LET rest == JsonDumps(<< <<"source", source_to_json(heap[source(self)])>>,
                             <<"source_type", get_source_type(heap[source(self)])>> >>)
        text == IF self._name = None
                THEN "{\"name\": null, " \o SubSeq(rest, 2, Len(rest))
                ELSE DigestConfig(heap, self)
    IN  IF source(self) = 0 THEN [raised |-> "AttributeError", val |-> ""]
        ELSE [raised |-> "none", val |-> SubSeq(Md5Hexdigest(text), 1, 8)]

\* Dataset._compute_digest: None has no to_json, which raises AttributeError
_compute_digest(heap, self) ==
    IF source(self) = 0 THEN [raised |-> "AttributeError", val |-> ""]
    ELSE [raised |-> "none",
          val |-> SubSeq(Md5Hexdigest(DigestConfig(heap, self)), 1, 8)]

\* the truth value of an Optional[str], as "digest or ..." takes it
Truthy(x) == x # None /\ x[1] # ""

\* the values _compute_digest puts into config
Hashed(heap, self) ==
    [computed |-> TRUE,
     name |-> name(self),
     source |-> source_to_json(heap[source(self)]),
     source_type |-> get_source_type(heap[source(self)])]

\* Dataset.__init__(self, source, name, digest): the object or the exception
\* let through, and how often _compute_digest was invoked
Dataset_init(heap, src, nm, dg) ==
    LET self == [cls |-> "Dataset", _name |-> nm, _source |-> src, _digest |-> ""]
        computed == _compute_digest(heap, self)
    IN  IF Truthy(dg)
        THEN [raised |-> "none", obj |-> [self EXCEPT !._digest = dg[1]], invoked |-> 0]
        ELSE IF computed.raised # "none"
             THEN [raised |-> computed.raised, obj |-> NoDataset, invoked |-> 1]
        ELSE [raised |-> "none", obj |-> [self EXCEPT !._digest = computed.val],
              invoked |-> 1]

\* variant of to_dict: "source" holds the source type, not source.to_json()
to_dict_TypeAsSource(heap, self) ==
    IF source(self) = 0 THEN [raised |-> "AttributeError", val |-> <<>>]
    ELSE [raised |-> "none",
          val |-> << <<"name", name(self)>>,
                     <<"digest", digest(self)>>,
                     <<"source", get_source_type(heap[source(self)])>>,
                     <<"source_type", get_source_type(heap[source(self)])>> >>]

\* variant of to_dict: the digest is computed anew at each call
to_dict_FreshDigest(heap, self) ==
    IF source(self) = 0 THEN [raised |-> "AttributeError", val |-> <<>>]
    ELSE [raised |-> "none",
          val |-> << <<"name", name(self)>>,
                     <<"digest", _compute_digest(heap, self).val>>,
                     <<"source", source_to_json(heap[source(self)])>>,
                     <<"source_type", get_source_type(heap[source(self)])>> >>]

\* Dataset.to_dict
to_dict(heap, self) ==
    IF source(self) = 0 THEN [raised |-> "AttributeError", val |-> <<>>]
    ELSE [raised |-> "none",
          val |-> << <<"name", name(self)>>,
                     <<"digest", digest(self)>>,
                     <<"source", source_to_json(heap[source(self)])>>,
                     <<"source_type", get_source_type(heap[source(self)])>> >>]

\* Dataset.to_json
to_json(heap, self) ==
    LET d == to_dict(heap, self) IN
    IF d.raised # "none" THEN [raised |-> d.raised, val |-> ""]
    ELSE [raised |-> "none", val |-> JsonDumps(d.val)]

\* mlflow.entities.Dataset(name, digest, source_type, source, schema, profile)
NoEntity ==
    [name |-> "", digest |-> "", source_type |-> "", source |-> "",
     schema |-> None, profile |-> None]

\* dict.get(key) of an object of strings: None when the key is absent
DictGetOptional(d, k) == IF DictHas(d, k) THEN Some(DictGet(d, k, "")) ELSE None

\* Dataset._to_mlflow_entity
_to_mlflow_entity(heap, self) ==
    LET text == to_json(heap, self)
        loaded == JsonLoads(text.val)
        dataset_json == loaded.val
    IN  IF text.raised # "none" THEN [raised |-> text.raised, val |-> NoEntity]
        ELSE IF ~loaded.ok THEN [raised |-> "JSONDecodeError", val |-> NoEntity]
        ELSE IF \E k \in {"name", "digest", "source_type", "source"} :
                    ~DictHas(dataset_json, k)
             THEN [raised |-> "KeyError", val |-> NoEntity]
        ELSE [raised |-> "none",
              val |-> [name |-> DictGet(dataset_json, "name", ""),
                       digest |-> DictGet(dataset_json, "digest", ""),
                       source_type |-> DictGet(dataset_json, "source_type", ""),
                       source |-> DictGet(dataset_json, "source", ""),
                       schema |-> DictGetOptional(dataset_json, "schema"),
                       profile |-> DictGetOptional(dataset_json, "profile")]]

----------------------------------------------------------------------------
(* Inputs of the Dataset operations *)

\* the references to the source objects of the caller
Refs == {1}

NameArgs == {None, Some("dataset"), Some("iris")}

DigestArgs == {None, Some(""), Some("0a1b2c3d")}

SourceArgs == {0} \cup Refs

----------------------------------------------------------------------------
(* The Dataset operations as actions *)

NoDsCall == [op |-> "none", self |-> NoDataset, name |-> None, digest |-> None, source |-> 0]

\* raised: the exception let through; s, d, entity, ref, obj: the value returned;
\* invoked: how often the call invoked _compute_digest
NoDsReturn ==
    [raised |-> "none", s |-> "", d |-> <<>>, entity |-> NoEntity, ref |-> 0,
     obj |-> NoDataset, invoked |-> 0]

\* what a constructor hashed: nothing when it was given the digest
NotHashed == [computed |-> FALSE, name |-> "", source |-> "", source_type |-> ""]

\* the Dataset objects built so far
Built == {d.self : d \in BagToSet(datasets)}

InitDatasets ==
    /\ sources = [r \in Refs |-> [source_type |-> "s3", json |-> "{\"uri\": \"s3://b/train\"}"]]
    /\ datasets = EmptyBag
    /\ dsCall = NoDsCall
    /\ dsRet = NoDsReturn

\* Dataset(source, name=name, digest=digest); the object built joins datasets
NewDataset(src, nm, dg) ==
    /\ BagCardinality(datasets) < MaxDatasets
    /\ \E made \in {Dataset_init(sources, src, nm, dg)} :
        /\ dsCall' = [NoDsCall EXCEPT !.op = "Dataset", !.name = nm, !.digest = dg,
                                      !.source = src]
        /\ dsRet' = [NoDsReturn EXCEPT !.raised = made.raised, !.obj = made.obj,
                                      !.invoked = made.invoked]
        /\ datasets' =
               IF made.raised # "none" THEN datasets
               ELSE datasets (+) SetToBag({
                        [self |-> made.obj,
                         hashed |-> IF made.invoked = 0 THEN NotHashed
                                    ELSE Hashed(sources, made.obj)]})
        /\ UNCHANGED <<sources, excVars, mdVars>>

\* a call on the Dataset self that changes nothing
Reads(self, op, result) ==
    /\ dsCall' = [NoDsCall EXCEPT !.op = op, !.self = self]
    /\ dsRet' = result
    /\ UNCHANGED <<sources, datasets, excVars, mdVars>>

ReadName(self) == Reads(self, "name", [NoDsReturn EXCEPT !.s = name(self)])

ReadDigest(self) == Reads(self, "digest", [NoDsReturn EXCEPT !.s = digest(self)])

ReadSource(self) == Reads(self, "source", [NoDsReturn EXCEPT !.ref = source(self)])

ComputeDigest(self) ==
    \E r \in {_compute_digest(sources, self)} :
        Reads(self, "_compute_digest",
              [NoDsReturn EXCEPT !.raised = r.raised, !.s = r.val, !.invoked = 1])

ToDict(self) ==
    \E r \in {to_dict(sources, self)} :
        Reads(self, "to_dict", [NoDsReturn EXCEPT !.raised = r.raised, !.d = r.val])

ToJson(self) ==
    \E r \in {to_json(sources, self)} :
        Reads(self, "to_json", [NoDsReturn EXCEPT !.raised = r.raised, !.s = r.val])

ToMlflowEntity(self) ==
    \E r \in {_to_mlflow_entity(sources, self)} :
        Reads(self, "_to_mlflow_entity",
              [NoDsReturn EXCEPT !.raised = r.raised, !.entity = r.val])

\* the caller changes the location of its source object r
MutateSource(r, json) ==
    /\ sources[r].json # json
    /\ sources' = [sources EXCEPT ![r].json = json]
    /\ dsCall' = [NoDsCall EXCEPT !.op = "mutate source", !.source = r]
    /\ dsRet' = NoDsReturn
    /\ UNCHANGED <<datasets, excVars, mdVars>>

NextDataset ==
    \/ \E src \in SourceArgs, nm \in NameArgs, dg \in DigestArgs : NewDataset(src, nm, dg)
    \/ \E self \in Built : ReadName(self)
    \/ \E self \in Built : ReadDigest(self)
    \/ \E self \in Built : ReadSource(self)
    \/ \E self \in Built : ComputeDigest(self)
    \/ \E self \in Built : ToDict(self)
    \/ \E self \in Built : ToJson(self)
    \/ \E self \in Built : ToMlflowEntity(self)
    \/ \E r \in Refs, json \in SourceJsons : MutateSource(r, json)

----------------------------------------------------------------------------
(* mlflow.models.Model, as test_model.py uses it.  The class is not among   *)
(* the sources; its fields, the keys it serializes and the file it writes   *)
(* are those of the specification.  Every field but flavors is an optional  *)
(* string; a flavor's payload and a signature are kept as their JSON text.  *)

NoModel ==
    [cls |-> "none", artifact_path |-> None, run_id |-> None, flavors |-> <<>>,
     signature |-> None, saved_input_example_info |-> None,
     utc_time_created |-> None, model_uuid |-> None, mlflow_version |-> None]

\* the optional fields, in the order they are serialized
OptionalKeys ==
    <<"artifact_path", "run_id", "signature", "saved_input_example_info",
      "utc_time_created", "model_uuid", "mlflow_version">>

\* mlflow.version.VERSION
VERSION == "2.20.0"

\* uuid.uuid4().hex: the n-th identifier generated, 32 hexadecimal digits
uuid4(n) == "0000000000004000800000000000" \o Hex4(n)

\* str(datetime.utcnow()) at the n-th constructor call: the clock has moved
\* between two calls
utcnow(n) == "2024-05-01 10:00:00.00" \o Hex4(n)

\* Model(**kwargs): utc_time_created and model_uuid are generated, the other
\* fields are as given
Model_init(kwargs, n) ==
    [NoModel EXCEPT !.cls = "Model",
                    !.artifact_path = kwargs.artifact_path,
                    !.run_id = kwargs.run_id,
                    !.flavors = kwargs.flavors,
                    !.signature = kwargs.signature,
                    !.saved_input_example_info = kwargs.saved_input_example_info,
                    !.utc_time_created = Some(utcnow(n)),
                    !.model_uuid = Some(uuid4(n)),
                    !.mlflow_version = kwargs.mlflow_version]

RECURSIVE OptionalItems(_, _)
OptionalItems(m, keys) ==
    IF keys = <<>> THEN <<>>
    ELSE (IF m[Head(keys)] = None THEN <<>> ELSE << <<Head(keys), m[Head(keys)][1]>> >>)
         \o OptionalItems(m, Tail(keys))

\* variant of Model.to_dict: model_uuid is left out
Model_to_dict_NoUuid(m) ==
    << <<"flavors", JsonDumps(m.flavors)>> >>
    \o OptionalItems([m EXCEPT !.model_uuid = None], OptionalKeys)

\* Model.to_dict: flavors, and every optional field that is not None
Model_to_dict(m) == << <<"flavors", JsonDumps(m.flavors)>> >> \o OptionalItems(m, OptionalKeys)

\* variant of Model.from_dict: without model_uuid the constructor's default
\* generates one
Model_from_dict_FreshUuid(d) ==
    [cls |-> "Model",
     flavors |-> JsonLoads(DictGet(d, "flavors", "{}")).val,
     artifact_path |-> DictGetOptional(d, "artifact_path"),
     run_id |-> DictGetOptional(d, "run_id"),
     signature |-> DictGetOptional(d, "signature"),
     saved_input_example_info |-> DictGetOptional(d, "saved_input_example_info"),
     utc_time_created |-> DictGetOptional(d, "utc_time_created"),
     model_uuid |-> Some(DictGet(d, "model_uuid", uuid4(0))),
     mlflow_version |-> DictGetOptional(d, "mlflow_version")]

\* Model.from_dict: a key that is absent leaves its field None
Model_from_dict(d) ==
    [cls |-> "Model",
     flavors |-> JsonLoads(DictGet(d, "flavors", "{}")).val,
     artifact_path |-> DictGetOptional(d, "artifact_path"),
     run_id |-> DictGetOptional(d, "run_id"),
     signature |-> DictGetOptional(d, "signature"),
     saved_input_example_info |-> DictGetOptional(d, "saved_input_example_info"),
     utc_time_created |-> DictGetOptional(d, "utc_time_created"),
     model_uuid |-> DictGetOptional(d, "model_uuid"),
     mlflow_version |-> DictGetOptional(d, "mlflow_version")]

\* Model.to_json
Model_to_json(m) == JsonDumps(Model_to_dict(m))

\* yaml.safe_dump of a dict of strings: one line per key, the value quoted
RECURSIVE YamlDumps(_)
YamlDumps(d) ==
    IF d = <<>> THEN ""
    ELSE Head(d)[1] \o ": " \o JsonString(Head(d)[2]) \o "\n" \o YamlDumps(Tail(d))

\* yaml.safe_load of such a text from place i on, added to acc
RECURSIVE YamlLoads(_, _, _)
YamlLoads(t, i, acc) ==
    LET c == Find(t, i, {":"})
        v == ParseString(t, c + 2)
    IN  IF i > Len(t) THEN [ok |-> TRUE, val |-> acc]
        ELSE IF c + 2 > Len(t) \/ ~v.ok \/ v.next > Len(t) \/ Ch(t, v.next) # "\n"
             THEN [ok |-> FALSE, val |-> acc]
        ELSE YamlLoads(t, v.next + 1, DictSet(acc, SubSeq(t, i, c - 1), v.val))

\* Model.to_yaml
Model_to_yaml(m) == YamlDumps(Model_to_dict(m))

\* Model.load(path): the Model of the file's text, or the exception
Model_load(file) ==
    LET d == YamlLoads(file[1], 1, <<>>) IN
    IF file = None THEN [raised |-> "MlflowException", obj |-> NoModel]
    ELSE IF ~d.ok THEN [raised |-> "YAMLError", obj |-> NoModel]
    ELSE [raised |-> "none", obj |-> Model_from_dict(d.val)]

\* variant of Model.__eq__: the signature is not compared
Model_eq_NoSignature(a, b) ==
    /\ [a EXCEPT !.flavors = <<>>, !.signature = None]
           = [b EXCEPT !.flavors = <<>>, !.signature = None]
    /\ {a.flavors[i] : i \in 1..Len(a.flavors)} = {b.flavors[i] : i \in 1..Len(b.flavors)}

\* Model.__eq__: the fields are equal, flavors as mappings
Model_eq(a, b) ==
    /\ [a EXCEPT !.flavors = <<>>] = [b EXCEPT !.flavors = <<>>]
    /\ {a.flavors[i] : i \in 1..Len(a.flavors)} = {b.flavors[i] : i \in 1..Len(b.flavors)}

----------------------------------------------------------------------------
(* Inputs of the Model operations: the constructor calls of test_model.py *)

Signature == "{\"inputs\": \"[x, y]\", \"outputs\": \"[double]\"}"

ModelArgs ==
    { [artifact_path |-> Some("model"), run_id |-> Some("123"),
       flavors |-> << <<"flavor1", "{\"a\": 1, \"b\": 2}">>,
                      <<"flavor2", "{\"x\": 1, \"y\": 2}">> >>,
       signature |-> Some(Signature),
       saved_input_example_info |-> Some("{\"x\": 1, \"y\": 2}"),
       mlflow_version |-> Some(VERSION)],
      [artifact_path |-> None, run_id |-> None, flavors |-> <<>>,
       signature |-> None, saved_input_example_info |-> None,
       mlflow_version |-> Some(VERSION)],
      [artifact_path |-> Some("model"), run_id |-> Some("1234"), flavors |-> <<>>,
       signature |-> None, saved_input_example_info |-> None,
       mlflow_version |-> None] }

----------------------------------------------------------------------------
(* The Model operations as actions *)

NoMCall == [op |-> "none", i |-> 0, j |-> 0]

\* raised: the exception let through; obj, b: the value returned
NoMReturn == [raised |-> "none", obj |-> NoModel, b |-> FALSE]

InitModels ==
    /\ models = <<>>
    /\ files = None
    /\ mCall = NoMCall
    /\ mRet = NoMReturn
    /\ log = [pc |-> "idle", signature |-> None, input_example |-> None,
              fails |-> FALSE, model |-> NoModel]
    /\ statuses = <<>>

\* Model(**kwargs); the object built joins models
NewModel(kwargs) ==
    /\ Len(models) < MaxModels
    /\ models' = Append(models, Model_init(kwargs, Len(models) + 1))
    /\ mCall' = [NoMCall EXCEPT !.op = "Model", !.i = Len(models) + 1]
    /\ mRet' = NoMReturn
    /\ UNCHANGED <<files, log, statuses, excVars, dsVars>>

\* models[i].utc_time_created = models[j].utc_time_created
\* models[i].model_uuid = models[j].model_uuid
SetIdentity(i, j) ==
    /\ i # j
    /\ models' = [models EXCEPT ![i].utc_time_created = models[j].utc_time_created,
                                ![i].model_uuid = models[j].model_uuid]
    /\ mCall' = [NoMCall EXCEPT !.op = "set identity", !.i = i, !.j = j]
    /\ mRet' = NoMReturn
    /\ UNCHANGED <<files, log, statuses, excVars, dsVars>>

\* models[i].signature = None
SetSignatureNone(i) ==
    /\ models[i].signature # None
    /\ models' = [models EXCEPT ![i].signature = None]
    /\ mCall' = [NoMCall EXCEPT !.op = "set signature", !.i = i]
    /\ mRet' = NoMReturn
    /\ UNCHANGED <<files, log, statuses, excVars, dsVars>>

\* models[i] == models[j]
Equals(i, j) ==
    /\ i < j
    /\ mCall' = [NoMCall EXCEPT !.op = "==", !.i = i, !.j = j]
    /\ mRet' = [NoMReturn EXCEPT !.b = Model_eq(models[i], models[j])]
    /\ UNCHANGED <<models, files, log, statuses, excVars, dsVars>>

\* with TempDir() as tmp: models[i].save(path); o = Model.load(path)
SaveLoad(i) ==
    \E r \in {Model_load(Some(Model_to_yaml(models[i])))} :
        /\ mCall' = [NoMCall EXCEPT !.op = "save, load", !.i = i]
        /\ mRet' = [NoMReturn EXCEPT !.raised = r.raised, !.obj = r.obj]
        /\ UNCHANGED <<models, files, log, statuses, excVars, dsVars>>

\* Model.from_dict(models[i].to_dict())
FromDict(i) ==
    /\ mCall' = [NoMCall EXCEPT !.op = "from_dict", !.i = i]
    /\ mRet' = [NoMReturn EXCEPT !.obj = Model_from_dict(Model_to_dict(models[i]))]
    /\ UNCHANGED <<models, files, log, statuses, excVars, dsVars>>

\* d = models[i].to_dict(); d.pop("model_uuid"); Model.from_dict(d)
FromDictWithoutUuid(i) ==
    /\ models[i].model_uuid # None
    /\ mCall' = [NoMCall EXCEPT !.op = "from_dict without model_uuid", !.i = i]
    /\ mRet' = [NoMReturn EXCEPT !.obj =
                   Model_from_dict(Model_to_dict([models[i] EXCEPT !.model_uuid = None]))]
    /\ UNCHANGED <<models, files, log, statuses, excVars, dsVars>>

NextModel ==
    \/ \E kwargs \in ModelArgs : NewModel(kwargs)
    \/ \E i, j \in DOMAIN models : SetIdentity(i, j)
    \/ \E i \in DOMAIN models : SetSignatureNone(i)
    \/ \E i, j \in DOMAIN models : Equals(i, j)
    \/ \E i \in DOMAIN models : SaveLoad(i)
    \/ \E i \in DOMAIN models : FromDict(i)
    \/ \E i \in DOMAIN models : FromDictWithoutUuid(i)

----------------------------------------------------------------------------
(* Logging a model: Model.log with the flavor TestFlavor of test_model.py,  *)
(* step by step, and the status of the logged model that                    *)
(* test_logged_model_status reads.                                          *)

\* mlflow_model.flavors[name] = payload, a variant: the entry is added last even
\* when the name is there
SetFlavor_Append(flavors, flavor, payload) == Append(flavors, <<flavor, payload>>)

\* mlflow_model.flavors[name] = payload
SetFlavor(flavors, flavor, payload) == DictSet(flavors, flavor, payload)

\* _save_example: the info recorded for an input example
ExampleInfo(input_example) ==
    JsonDumps(<< <<"artifact_path", "input_example.json">>, <<"example", input_example>> >>)

\* variant of StatusAfter: the logged model is always finalized as READY
StatusAfter_AlwaysReady(raised) == "READY"

\* the status a logged model is finalized with
StatusAfter(raised) == IF raised = "none" THEN "READY" ELSE "FAILED"

\* the descriptors save_model is handed: the new one of Model.log, and one that
\* already has a payload under "flavor1"
Descriptors ==
    { [artifact_path |-> Some("model"), run_id |-> Some("123"), flavors |-> <<>>,
       signature |-> None, saved_input_example_info |-> None,
       mlflow_version |-> Some(VERSION)],
      [artifact_path |-> Some("model"), run_id |-> Some("123"),
       flavors |-> << <<"flavor1", "{\"a\": 0}">> >>,
       signature |-> None, saved_input_example_info |-> None,
       mlflow_version |-> Some(VERSION)] }

\* Model.log(...) begins: a logged model is created and the descriptor is built,
\* in a directory of its own
LogStart(kwargs, signature, input_example, fails) ==
    /\ log.pc = "idle"
    /\ Len(statuses) < MaxLogged
    /\ log' = [pc |-> "flavor1", signature |-> signature, input_example |-> input_example,
               fails |-> fails, model |-> Model_init(kwargs, Len(statuses) + 1)]
    /\ statuses' = Append(statuses, "PENDING")
    /\ files' = None
    /\ mCall' = [NoMCall EXCEPT !.op = "log", !.i = Len(statuses) + 1]
    /\ mRet' = NoMReturn
    /\ UNCHANGED <<models, excVars, dsVars>>

\* a step of save_model that changes the descriptor and goes on
SaveStep(pc, next, model) ==
    /\ log.pc = pc
    /\ log' = [log EXCEPT !.pc = next, !.model = model]
    /\ UNCHANGED <<models, files, mCall, mRet, statuses, excVars, dsVars>>

\* mlflow_model.flavors["flavor1"] = {"a": 1, "b": 2}
SaveFlavor1 ==
    /\ ~log.fails
    /\ SaveStep("flavor1", "flavor2",
                [log.model EXCEPT !.flavors = SetFlavor(@, "flavor1", "{\"a\": 1, \"b\": 2}")])

\* mlflow_model.flavors["flavor2"] = {"x": 1, "y": 2}, and the path is prepared
SaveFlavor2 ==
    SaveStep("flavor2", "signature",
             [log.model EXCEPT !.flavors = SetFlavor(@, "flavor2", "{\"x\": 1, \"y\": 2}")])

\* if signature is not None: mlflow_model.signature = signature
SaveSignature ==
    SaveStep("signature", "example",
             IF log.signature # None THEN [log.model EXCEPT !.signature = log.signature]
             ELSE log.model)

\* if input_example is not None: _save_example(mlflow_model, input_example, path)
SaveExample ==
    SaveStep("example", "persist",
             IF log.input_example # None
             THEN [log.model EXCEPT !.saved_input_example_info =
                                        Some(ExampleInfo(log.input_example[1]))]
             ELSE log.model)

\* the log call ends: the logged model is finalized
LogEnd(raised) ==
    /\ log' = [log EXCEPT !.pc = "idle"]
    /\ statuses' = [statuses EXCEPT ![Len(statuses)] = StatusAfter(raised)]
    /\ mRet' = [NoMReturn EXCEPT !.raised = raised]
    /\ UNCHANGED <<models, mCall, excVars, dsVars>>

\* mlflow_model.save(os.path.join(path, "MLmodel")), and the log call returns
Persist ==
    /\ log.pc = "persist"
    /\ files' = Some(Model_to_yaml(log.model))
    /\ LogEnd("none")

\* the save step raises (the mock's side effect): the exception goes to the caller
SaveRaises ==
    /\ log.pc = "flavor1"
    /\ log.fails
    /\ files' = files
    /\ LogEnd("Exception")

\* Model.load(os.path.join(local_path, "MLmodel")) after a log call
LoadLogged ==
    /\ log.pc = "idle"
    /\ statuses # <<>>
    /\ \E r \in {Model_load(files)} :
        /\ mCall' = [NoMCall EXCEPT !.op = "load", !.i = Len(statuses)]
        /\ mRet' = [NoMReturn EXCEPT !.raised = r.raised, !.obj = r.obj]
    /\ UNCHANGED <<models, files, log, statuses, excVars, dsVars>>

NextLog ==
    \/ \E kwargs \in Descriptors, signature \in {None, Some(Signature)},
          input_example \in {None, Some("{\"x\": 1, \"y\": 2}")}, fails \in BOOLEAN :
           LogStart(kwargs, signature, input_example, fails)
    \/ SaveFlavor1
    \/ SaveFlavor2
    \/ SaveSignature
    \/ SaveExample
    \/ Persist
    \/ SaveRaises
    \/ LoadLogged

----------------------------------------------------------------------------
(* The specifications: exceptions, tables, datasets, models, logging *)

Init == InitExceptions /\ InitDatasets /\ InitModels

Spec == Init /\ [][Next]_vars

SpecTable == Init /\ [][NextTable]_vars

SpecDataset == Init /\ [][NextDataset]_vars

SpecModel == Init /\ [][NextModel]_vars

SpecLog == Init /\ [][NextLog]_vars

----------------------------------------------------------------------------
(* Properties of the error-code tables and of the exceptions                *)

\* the table of the specification: code, HTTP status
FixedTable ==
    { <<"INTERNAL_ERROR", 500>>, <<"NOT_IMPLEMENTED", 501>>,
      <<"TEMPORARILY_UNAVAILABLE", 503>>, <<"DEADLINE_EXCEEDED", 504>>,
      <<"REQUEST_LIMIT_EXCEEDED", 429>>, <<"RESOURCE_EXHAUSTED", 429>>,
      <<"ABORTED", 409>>, <<"RESOURCE_CONFLICT", 409>>, <<"ALREADY_EXISTS", 409>>,
      <<"NOT_FOUND", 404>>, <<"ENDPOINT_NOT_FOUND", 404>>,
      <<"RESOURCE_DOES_NOT_EXIST", 404>>, <<"PERMISSION_DENIED", 403>>,
      <<"CUSTOMER_UNAUTHORIZED", 401>>, <<"UNAUTHENTICATED", 401>>,
      <<"BAD_REQUEST", 400>>, <<"RESOURCE_ALREADY_EXISTS", 400>>,
      <<"INVALID_PARAMETER_VALUE", 400>> }

Entries(d) == {d[i] : i \in 1..Len(d)}

\* C1: get_http_status_code never fails; for a code of the fixed table it
\* returns the table's status, for every key of ERROR_CODE_TO_HTTP_STATUS the
\* status written there, and for an error_code that is no key it returns 500.
C1_StatusOfCode ==
    call.op = "get_http_status_code" =>
        /\ ret.raised = "none"
        /\ \A e \in FixedTable : exc.error_code = e[1] => ret.n = e[2]
        /\ exc.error_code \in DictKeys(error_code_to_http_status)
               => <<exc.error_code, ret.n>> \in Entries(error_code_to_http_status)
        /\ exc.error_code \notin DictKeys(error_code_to_http_status) => ret.n = 500

\* a member of the enumeration that is no key of the table has been looked up
C1_Witness ==
    /\ call.op = "get_http_status_code"
    /\ exc.error_code = "MALFORMED_REQUEST"
    /\ ret.n = 500

\* the statuses some code of the forward table maps to
MappedStatuses(forward) == {forward[i][2] : i \in 1..Len(forward)}

\* the numbers of the codes the forward table maps to status s
CodesOf(forward, s) ==
    {ErrorCode_Value(PyStr(forward[i][1])).val : i \in {j \in 1..Len(forward) : forward[j][2] = s}}

\* C2: get_error_code gives one canonical code per status: BAD_REQUEST for 400,
\* ENDPOINT_NOT_FOUND for 404, INTERNAL_ERROR for 500, for every other status
\* some code maps to a code that maps to it, and INTERNAL_ERROR for a status
\* no code maps to.
C2_CanonicalCode ==
    call.op = "get_error_code" =>
        /\ ret.raised = "none"
        /\ Cardinality({i \in 1..Len(http_status_to_error_code) :
                           http_status_to_error_code[i][1] = call.http_status}) <= 1
        /\ call.http_status = 400 => ret.n = BAD_REQUEST
        /\ call.http_status = 404 => ret.n = ENDPOINT_NOT_FOUND
        /\ call.http_status = 500 => ret.n = INTERNAL_ERROR
        /\ call.http_status \in MappedStatuses(error_code_to_http_status)
               => ret.n \in CodesOf(error_code_to_http_status, call.http_status)
        /\ call.http_status \notin MappedStatuses(error_code_to_http_status)
               => ret.n = INTERNAL_ERROR

\* status 404 has been looked up in the tables as written
C2_Witness ==
    /\ call.op = "get_error_code"
    /\ swaps = 0
    /\ call.http_status = 404
    /\ ret.n = ENDPOINT_NOT_FOUND

\* the statuses more than one code of the forward table maps to
SharedStatuses(forward) ==
    {s \in MappedStatuses(forward) : Cardinality(CodesOf(forward, s)) > 1}

\* the number of the last entry of the forward table with status s
LastCodeOf(forward, s) ==
    LET last == CHOOSE i \in 1..Len(forward) :
                    /\ forward[i][2] = s
                    /\ \A j \in (i + 1)..Len(forward) : forward[j][2] # s
    IN  ErrorCode_Value(PyStr(forward[last][1])).val

\* C3 as stated: for each of the shared statuses 400, 401, 404, 409, 429 and 500
\* a reordering of the forward table leaves get_error_code unchanged.
C3_AllSharedUnchanged ==
    (call.op = "get_error_code" /\ call.http_status \in {400, 401, 404, 409, 429, 500})
        => ret.n = get_error_code(HTTP_STATUS_TO_ERROR_CODE, call.http_status).val

\* C3 as amended: a reordering leaves get_error_code unchanged for 400, 404 and
\* 500, the statuses with a hardcoded assignment; for every other status some
\* code maps to, get_error_code is the code of the last entry with that status.
C3_PinnedUnchanged ==
    call.op = "get_error_code" =>
        /\ SharedStatuses(error_code_to_http_status) = {400, 401, 404, 409, 429, 500}
        /\ call.http_status \in {400, 404, 500}
               => ret.n = get_error_code(HTTP_STATUS_TO_ERROR_CODE, call.http_status).val
        /\ call.http_status \in MappedStatuses(error_code_to_http_status) \ {400, 404, 500}
               => ret.n = LastCodeOf(error_code_to_http_status, call.http_status)

\* after a reordering status 401 gives another code than in the tables as written
C3_Witness ==
    /\ call.op = "get_error_code"
    /\ swaps > 0
    /\ call.http_status = 401
    /\ ret.n = CUSTOMER_UNAUTHORIZED
    /\ get_error_code(HTTP_STATUS_TO_ERROR_CODE, 401).val = UNAUTHENTICATED

\* the names get_error_code can return
CanonicalNames ==
    {http_status_to_error_code[i][2] : i \in 1..Len(http_status_to_error_code)}
    \cup {"INTERNAL_ERROR"}

\* C4: with f(c) = status_to_code(code_to_status(c)), f(f(c)) = f(c) for every
\* code, f(c) = c for every canonical code, and f(NOT_FOUND) = ENDPOINT_NOT_FOUND.
\* chain holds c, f(c), f(f(c)), ... for the exception at hand.
C4_RoundTrip ==
    /\ \A i \in 2..(Len(chain) - 1) : chain[i + 1] = chain[i]
    /\ (Len(chain) >= 2 /\ chain[1] \in CanonicalNames) => chain[2] = chain[1]
    /\ (Len(chain) >= 2 /\ chain[1] = "NOT_FOUND") => chain[2] = "ENDPOINT_NOT_FOUND"
    /\ "NOT_FOUND" \notin CanonicalNames

\* NOT_FOUND has been sent through the round trip twice
C4_Witness ==
    /\ Len(chain) = 3
    /\ chain = <<"NOT_FOUND", "ENDPOINT_NOT_FOUND", "ENDPOINT_NOT_FOUND">>
    /\ exc.error_code = "ENDPOINT_NOT_FOUND"

IsMember(x) == x.t = "int" /\ x.n \in EnumNumbers

\* C5: constructing an MlflowException never raises; with an error_code that is
\* no member of the enumeration (an unknown number, a value of another type)
\* the object has error_code INTERNAL_ERROR, with a member it has the member's
\* name; the message and the extra fields are those given.
C5_InvalidCodeAbsorbed ==
    call.op = "MlflowException" =>
        /\ ret.raised = "none"
        /\ exc.cls = call.cls
        /\ ~IsMember(call.error_code) => exc.error_code = "INTERNAL_ERROR"
        /\ IsMember(call.error_code)
               => <<exc.error_code, call.error_code.n>> \in Entries(ErrorCode)
        /\ exc.message = call.message.s
        /\ exc.json_kwargs = call.kwargs

\* an exception has been built from an error_code of the wrong type
C5_Witness ==
    /\ call.op = "MlflowException"
    /\ call.error_code = PyStr("NOT_FOUND")
    /\ ret.raised = "none"
    /\ exc.error_code = "INTERNAL_ERROR"
    /\ exc.json_kwargs # <<>>

ReceivedCode(json) == IF DictHas(json, "error_code") THEN DictGet(json, "error_code", "")
                      ELSE "INTERNAL_ERROR"

\* C7: a RestException built from a response whose error_code is no member's
\* name does not raise, has error_code INTERNAL_ERROR and status 500, logs
\* exactly one warning and keeps the response in json; with a member's name it
\* has that code and logs nothing.
C7_UnrecognizedCode ==
    call.op = "RestException" =>
        /\ ret.raised = "none"
        /\ exc.cls = "RestException"
        /\ exc.json = Some(call.json)
        /\ ReceivedCode(call.json) \notin EnumNames
               => /\ exc.error_code = "INTERNAL_ERROR"
                  /\ get_http_status_code(error_code_to_http_status, exc) = 500
                  /\ ret.logged = 1
                  /\ Len(warnings) >= 1
        /\ ReceivedCode(call.json) \in EnumNames
               => /\ exc.error_code = ReceivedCode(call.json)
                  /\ ret.logged = 0

\* a response with an error_code of a proxy has been received
C7_Witness ==
    /\ call.op = "RestException"
    /\ call.json = << <<"error_code", "PROXY_BLOCKED">>, <<"message", "no such run">> >>
    /\ exc.error_code = "INTERNAL_ERROR"
    /\ warnings = <<UnrecognizedWarning("PROXY_BLOCKED")>>

\* C8: the message of a RestException is the received error_code (INTERNAL_ERROR
\* when absent), then ": ", then the response's message or, when it has none,
\* "Response: " and the response itself.
C8_FallbackMessage ==
    call.op = "RestException" =>
        exc.message =
            ReceivedCode(call.json) \o ": "
            \o (IF "message" \in DictKeys(call.json)
                THEN call.json[CHOOSE i \in 1..Len(call.json) : call.json[i][1] = "message"][2]
                ELSE "Response: " \o StrDict(call.json))

\* a response without a message has been received
C8_Witness ==
    /\ call.op = "RestException"
    /\ ~DictHas(call.json, "message")
    /\ exc.message = "PROXY_BLOCKED: Response: {'error_code': 'PROXY_BLOCKED'}"

----------------------------------------------------------------------------
(* Properties of the datasets *)

HexChars == {Ch(HexDigits, i) : i \in 1..Len(HexDigits)}

IsHex8(s) == Len(s) = 8 /\ \A i \in 1..8 : Ch(s, i) \in HexChars

\* C9: the default digest is deterministic and of fixed length.  Every digest
\* a constructor computed is a string of 8 hexadecimal characters; two Datasets
\* whose constructors hashed the same name, serialized source and source type
\* hold the same digest; and a later call of _compute_digest returns 8
\* hexadecimal characters that equal the digest of every Dataset that was built
\* from the triple the call hashes, whatever else differs between them.
C9_DigestDeterministic ==
    /\ \A d \in BagToSet(datasets) : d.hashed.computed => IsHex8(digest(d.self))
    /\ \A d, e \in BagToSet(datasets) :
           d.hashed.computed /\ e.hashed = d.hashed => digest(e.self) = digest(d.self)
    /\ (dsCall.op = "_compute_digest" /\ dsRet.raised = "none") =>
           /\ IsHex8(dsRet.s)
           /\ \A d \in BagToSet(datasets) :
                  d.hashed = Hashed(sources, dsCall.self) => digest(d.self) = dsRet.s

\* C9 happens: a Dataset built with name None and one built with name
\* "dataset" over the same source both computed their digest, and
\* _compute_digest was then called on the first and returned the digest of both
C9_Witness ==
    /\ dsCall.op = "_compute_digest"
    /\ dsRet.raised = "none"
    /\ \E d, e \in BagToSet(datasets) :
           /\ d.self = dsCall.self
           /\ d.self._name = None
           /\ e.self._name = Some("dataset")
           /\ d.hashed.computed
           /\ e.hashed = d.hashed
           /\ d.hashed = Hashed(sources, dsCall.self)
           /\ dsRet.s = digest(e.self)

\* C10: a Dataset's digest is the one supplied or a computed one.  After a
\* constructor call that was given a digest string, the Dataset is built, its
\* digest property returns exactly that string and _compute_digest was not
\* invoked; _compute_digest is invoked only when the digest argument is None.
C10_GivenDigestKept ==
    dsCall.op = "Dataset" =>
        /\ dsCall.digest # None =>
               /\ dsRet.raised = "none"
               /\ digest(dsRet.obj) = dsCall.digest[1]
               /\ dsRet.invoked = 0
        /\ dsRet.invoked > 0 => dsCall.digest = None

\* C11: a Dataset cannot be built without a source.  A constructor call whose
\* source is None raises a validation error (an MlflowException), whether or
\* not a digest is given, and no Dataset built has the source None.
C11_AbsentSourceRejected ==
    /\ (dsCall.op = "Dataset" /\ dsCall.source = 0) => dsRet.raised = "MlflowException"
    /\ \A self \in Built : source(self) # 0

\* C12: a Dataset built with name None has the placeholder name.  Its name
\* property is "dataset", a read of name returns it, to_dict writes it under
\* "name" and the constructor hashed it; so a Dataset built with name None and
\* one built with name "dataset" over the same source with the same serialized
\* form have the same name, the same computed digest and the same to_dict.
C12_PlaceholderName ==
    /\ \A d \in BagToSet(datasets) :
           d.self._name = None =>
               /\ name(d.self) = "dataset"
               /\ d.hashed.computed => d.hashed.name = "dataset"
    /\ (dsCall.self._name = None /\ dsRet.raised = "none") =>
           /\ dsCall.op = "name" => dsRet.s = "dataset"
           /\ dsCall.op = "to_dict" => DictGet(dsRet.d, "name", "") = "dataset"
    /\ \A d, e \in BagToSet(datasets) :
           ( /\ d.self._name = None
             /\ e.self._name = Some("dataset")
             /\ source(d.self) = source(e.self)
             /\ d.hashed.computed
             /\ e.hashed.computed
             /\ d.hashed.source = e.hashed.source )
           => /\ name(d.self) = name(e.self)
              /\ digest(d.self) = digest(e.self)
              /\ to_dict(sources, d.self) = to_dict(sources, e.self)

\* C12 happens: to_dict was called on a Dataset built with name None and wrote
\* "dataset", and a Dataset built with name "dataset" over the same source, both
\* with computed digests, is there to compare with
C12_Witness ==
    /\ dsCall.op = "to_dict"
    /\ dsCall.self._name = None
    /\ dsRet.raised = "none"
    /\ DictGet(dsRet.d, "name", "") = "dataset"
    /\ \E d, e \in BagToSet(datasets) :
           /\ d.self = dsCall.self
           /\ e.self._name = Some("dataset")
           /\ source(d.self) = source(e.self)
           /\ d.hashed.computed
           /\ e.hashed.computed
           /\ d.hashed.source = e.hashed.source
           /\ dsRet.d = to_dict(sources, e.self).val

\* C13: the serialized forms of a Dataset.  A to_dict call that returns gives
\* exactly the keys name, digest, source and source_type, with the name and
\* digest properties, source.to_json() and the source's type as values; a
\* to_json call returns a JSON text that decodes to that dict; and the entity
\* of _to_mlflow_entity carries the same four values, with schema and profile
\* None.  The three calls return unless the Dataset's source is None.
C13_SerializedForm ==
    dsCall.op \in {"to_dict", "to_json", "_to_mlflow_entity"} =>
        /\ dsRet.raised = IF source(dsCall.self) = 0 THEN "AttributeError" ELSE "none"
        /\ (dsCall.op = "to_dict" /\ dsRet.raised = "none") =>
               /\ DictKeys(dsRet.d) = {"name", "digest", "source", "source_type"}
               /\ Len(dsRet.d) = 4
               /\ DictGet(dsRet.d, "name", "") = name(dsCall.self)
               /\ DictGet(dsRet.d, "digest", "") = digest(dsCall.self)
               /\ DictGet(dsRet.d, "source", "") = source_to_json(sources[source(dsCall.self)])
               /\ DictGet(dsRet.d, "source_type", "")
                      = get_source_type(sources[source(dsCall.self)])
        /\ (dsCall.op = "to_json" /\ dsRet.raised = "none") =>
               /\ JsonLoads(dsRet.s).ok
               /\ JsonLoads(dsRet.s).val = to_dict(sources, dsCall.self).val
        /\ (dsCall.op = "_to_mlflow_entity" /\ dsRet.raised = "none") =>
               /\ dsRet.entity.name = name(dsCall.self)
               /\ dsRet.entity.digest = digest(dsCall.self)
               /\ dsRet.entity.source = source_to_json(sources[source(dsCall.self)])
               /\ dsRet.entity.source_type = get_source_type(sources[source(dsCall.self)])
               /\ dsRet.entity.schema = None
               /\ dsRet.entity.profile = None

\* C13 happens: _to_mlflow_entity returned the entity of a Dataset with a
\* name of its own and a computed digest, the serialized source in it
C13_Witness ==
    /\ dsCall.op = "_to_mlflow_entity"
    /\ dsRet.raised = "none"
    /\ dsCall.self._name = Some("iris")
    /\ dsRet.entity.name = "iris"
    /\ dsRet.entity.digest = digest(dsCall.self)
    /\ dsRet.entity.digest # "0a1b2c3d"
    /\ dsRet.entity.source = "{\"uri\": \"s3://b/test\"}"
    /\ dsRet.entity.source_type = "s3"
    /\ dsRet.entity.schema = None

\* the digest of the values a constructor hashed
DigestOf(h) ==
    SubSeq(Md5Hexdigest(JsonDumps(<< <<"name", h.name>>, <<"source", h.source>>,
                                     <<"source_type", h.source_type>> >>)), 1, 8)

\* the calls that read a Dataset
ReadOps == {"name", "digest", "source", "to_dict", "to_json", "_to_mlflow_entity"}

\* C19: the digest is fixed at construction.  The constructor invokes
\* _compute_digest at most once and no read invokes it; a computed digest is the
\* hash of the name and the source as they were at construction, whatever
\* happened to the source since; name, digest, source, to_dict and
\* _to_mlflow_entity give the name, the digest and the source the object holds;
\* and no step changes or removes a Dataset that was built.
C19_DigestFixed ==
    /\ [](/\ \A e \in BagToSet(datasets) :
                e.hashed.computed =>
                    /\ digest(e.self) = DigestOf(e.hashed)
                    /\ name(e.self) = e.hashed.name
          /\ dsCall.op = "Dataset" => dsRet.invoked <= 1
          /\ dsCall.op \in ReadOps =>
                /\ dsRet.invoked = 0
                /\ dsCall.self \in Built
          /\ dsCall.op = "name" => dsRet.s = name(dsCall.self)
          /\ dsCall.op = "digest" => dsRet.s = dsCall.self._digest
          /\ dsCall.op = "source" => dsRet.ref = dsCall.self._source
          /\ (dsCall.op = "to_dict" /\ dsRet.raised = "none") =>
                /\ DictGet(dsRet.d, "digest", "") = dsCall.self._digest
                /\ DictGet(dsRet.d, "name", "") = name(dsCall.self)
          /\ (dsCall.op = "_to_mlflow_entity" /\ dsRet.raised = "none") =>
                /\ dsRet.entity.digest = dsCall.self._digest
                /\ dsRet.entity.name = name(dsCall.self))
    /\ [][/\ \A e \in BagToSet(datasets) : CopiesIn(e, datasets') >= CopiesIn(e, datasets)
          /\ dsCall'.op \in ReadOps => datasets' = datasets]_vars

\* C19 happens: to_dict gives the digest computed at construction for a Dataset
\* whose source the caller has changed since
C19_Witness ==
    /\ dsCall.op = "to_dict"
    /\ dsRet.raised = "none"
    /\ \E e \in BagToSet(datasets) :
           /\ e.self = dsCall.self
           /\ e.hashed.computed
           /\ e.hashed.source # source_to_json(sources[source(e.self)])
           /\ DictGet(dsRet.d, "digest", "") = DigestOf(e.hashed)

\* C20 as stated: the source is the Dataset's own, so for a Dataset that computed
\* its digest, to_dict gives the serialized source of the construction and
\* _compute_digest gives the stored digest, whatever the caller did to its
\* source object since.
C20_SourceOwned ==
    \A e \in BagToSet(datasets) :
        (e.hashed.computed /\ dsCall.self = e.self) =>
            /\ (dsCall.op = "to_dict" /\ dsRet.raised = "none") =>
                   DictGet(dsRet.d, "source", "") = e.hashed.source
            /\ (dsCall.op = "_compute_digest" /\ dsRet.raised = "none") =>
                   dsRet.s = digest(e.self)

----------------------------------------------------------------------------
(* Properties of the models *)

\* C14: round trip of the model descriptor.  Saving a Model m to a file and
\* loading the file gives a Model o with o == m, o.to_json() == m.to_json() and
\* o.to_yaml() == m.to_yaml(); and Model.from_dict(m.to_dict()) has every
\* serialized field of m, model_uuid among them.
C14_RoundTrip ==
    /\ mCall.op = "save, load" =>
           /\ mRet.raised = "none"
           /\ Model_eq(mRet.obj, models[mCall.i])
           /\ Model_to_json(mRet.obj) = Model_to_json(models[mCall.i])
           /\ Model_to_yaml(mRet.obj) = Model_to_yaml(models[mCall.i])
    /\ mCall.op = "from_dict" =>
           /\ Model_to_dict(mRet.obj) = Model_to_dict(models[mCall.i])
           /\ mRet.obj.model_uuid = models[mCall.i].model_uuid
           /\ Model_eq(mRet.obj, models[mCall.i])

\* C14 happens: a Model with two flavors, a signature and an identifier was
\* saved and loaded, and the Model loaded has them
C14_Witness ==
    /\ mCall.op = "save, load"
    /\ mRet.raised = "none"
    /\ Len(mRet.obj.flavors) = 2
    /\ mRet.obj.signature = Some(Signature)
    /\ mRet.obj.model_uuid # None
    /\ mRet.obj.model_uuid = models[mCall.i].model_uuid

\* the key-value pairs of a dict
DictPairs(d) == {d[i] : i \in 1..Len(d)}

\* C15: equality of model descriptors is equality of all serialized fields.
\* m == n is true exactly when to_dict gives the same value for every key; so
\* two Models built from the same arguments are unequal while their
\* model_uuid or utc_time_created differ, equal once n has been given those
\* of m, and unequal again once the signature of one of them is set to None.
C15_EqualityOfFields ==
    mCall.op = "==" =>
        /\ mRet.b <=> (DictPairs(Model_to_dict(models[mCall.i]))
                          = DictPairs(Model_to_dict(models[mCall.j])))
        /\ models[mCall.i].model_uuid # models[mCall.j].model_uuid => ~mRet.b
        /\ models[mCall.i].utc_time_created # models[mCall.j].utc_time_created => ~mRet.b
        /\ models[mCall.i].signature # models[mCall.j].signature => ~mRet.b

\* C15 happens: two Models with flavors and a signature, built apart and then
\* given one identifier and one time of creation, were compared and are equal
C15_Witness ==
    /\ mCall.op = "=="
    /\ mRet.b
    /\ models[mCall.i].signature = Some(Signature)
    /\ Len(models[mCall.j].flavors) = 2
    /\ models[mCall.j].model_uuid = models[mCall.i].model_uuid

\* uuid.UUID(s) accepts s: 32 hexadecimal digits
IsValidUuid(s) == Len(s) = 32 /\ \A i \in 1..32 : Ch(s, i) \in HexChars

\* C17: model identifiers.  A Model just built has a model_uuid that is not
\* None, is a valid UUID and is the model_uuid of no other Model built;
\* to_dict holds it under "model_uuid" and from_dict restores it; and from_dict
\* of a dict without the key gives a Model whose model_uuid is None.
C17_ModelUuid ==
    /\ mCall.op = "Model" =>
           /\ models[mCall.i].model_uuid # None
           /\ IsValidUuid(models[mCall.i].model_uuid[1])
           /\ \A k \in DOMAIN models :
                  k # mCall.i => models[k].model_uuid # models[mCall.i].model_uuid
    /\ mCall.op = "from_dict" =>
           /\ DictGetOptional(Model_to_dict(models[mCall.i]), "model_uuid")
                  = models[mCall.i].model_uuid
           /\ mRet.obj.model_uuid = models[mCall.i].model_uuid
    /\ mCall.op = "from_dict without model_uuid" => mRet.obj.model_uuid = None

\* C17 happens: two Models were built, with different identifiers, and
\* from_dict of the dict of one without "model_uuid" gave a Model without one
C17_Witness ==
    /\ mCall.op = "from_dict without model_uuid"
    /\ mRet.obj.cls = "Model"
    /\ mRet.obj.model_uuid = None
    /\ Len(models) = 2
    /\ models[1].model_uuid # None
    /\ models[2].model_uuid # None
    /\ models[1].model_uuid # models[2].model_uuid

----------------------------------------------------------------------------
(* Properties of logging *)

\* the flavor mapping save_model of TestFlavor leaves in the descriptor
TestFlavors ==
    { <<"flavor1", "{\"a\": 1, \"b\": 2}">>, <<"flavor2", "{\"x\": 1, \"y\": 2}">> }

\* C16: the save workflow changes the descriptor first and persists last: while
\* save_model is still writing flavors, signature and input example no file is
\* there, and the file loaded after the log call holds one entry per flavor
\* name with the last payload written, the signature and the input-example
\* info of the call, all as the descriptor held them when it was saved.
C16_MutateThenPersist ==
    /\ log.pc # "idle" => files = None
    /\ (mCall.op = "load" /\ files # None) =>
        /\ mRet.raised = "none"
        /\ Len(mRet.obj.flavors) = 2
        /\ DictPairs(mRet.obj.flavors) = TestFlavors
        /\ mRet.obj.signature = log.signature
        /\ mRet.obj.saved_input_example_info =
               (IF log.input_example = None THEN None
                ELSE Some(ExampleInfo(log.input_example[1])))
        /\ Model_eq(mRet.obj, log.model)
        /\ mRet.obj.model_uuid = log.model.model_uuid

\* a model logged with a signature and an input example is loaded back
C16_Witness ==
    /\ mCall.op = "load"
    /\ files # None
    /\ mRet.raised = "none"
    /\ mRet.obj.signature = Some(Signature)
    /\ mRet.obj.saved_input_example_info # None

====
